---- MODULE Spec2Model ----
(***************************************************************************)
(* A model of alex/components/slu/base.py: the category label database     *)
(* (CategoryLabelDatabase) and the substitution engine (SLUPreprocessing). *)
(*                                                                         *)
(* Representation of the Python values:                                    *)
(*   - a token, a slot name, a value, a category label: a string;          *)
(*   - a surface form (a tuple of words), an utterance: a sequence of      *)
(*     tokens;                                                             *)
(*   - a phrase of the database source (a Python string): a sequence of    *)
(*     chunks, each a word or the blank " ", words separated by blanks;    *)
(*   - a dict: a sequence of <<key, item>> pairs in the dict's iteration   *)
(*     order (the database, the upnames_vals of a surface), or a function  *)
(*     (category_label_counter, valform_for_cl);                           *)
(*   - Python's 0-based index or -1 of find: a 1-based index or 0.         *)
(***************************************************************************)
EXTENDS Integers, Sequences, FiniteSets, TLC

(***************************************************************************)
(* Bounds of the model.                                                    *)
(***************************************************************************)
\* longest utterance handed to a call on a single utterance
MaxUttLen == 4
\* most hypotheses of an n-best list, and the longest of them
MaxHyps == 2
MaxHypLen == 2
\* most dialogue act items of a dialogue act
MaxDais == 2
\* most calls of load on one database object
MaxLoads == 2

(***************************************************************************)
(* Generic helpers.                                                        *)
(***************************************************************************)
SeqsUpTo(S, n) == UNION {[1..k -> S] : k \in 0..n}

Perms(S) == {p \in [1..Cardinality(S) -> S] :
                \A i, j \in 1..Cardinality(S) : i # j => p[i] # p[j]}

Range(s) == {s[i] : i \in DOMAIN s}

EmptyMap == [k \in {} |-> <<>>]

\* d[k] of a defaultdict(int)
Count(d, k) == IF k \in DOMAIN d THEN d[k] ELSE 0

(***************************************************************************)
(* str.upper() and str.lower() on the strings of the model.                *)
(***************************************************************************)
Upper(s) ==
    CASE s = "city" -> "CITY"
      [] s = "stop" -> "STOP"
      [] s = "City" -> "CITY"
      [] OTHER -> s

Lower(s) ==
    CASE s = "Praha" -> "praha"
      [] s = "Prague" -> "prague"
      [] s = "UHM" -> "uhm"
      [] s = "I'M" -> "i'm"
      [] s = "I" -> "i"
      [] s = "CITY" -> "city"
      [] OTHER -> s

(***************************************************************************)
(* The utterance type (alex.components.asr.utterance), by the capabilities *)
(* the engine requires of it: containment, replacement of the first        *)
(* occurrence, relabelling, lower-casing.                                  *)
(***************************************************************************)
\* Utterance.find: the start of the first occurrence of phrase, 0 if none
find(utt, phrase) ==
    LET starts == {i \in 1..(Len(utt) - Len(phrase) + 1) :
                      SubSeq(utt, i, i + Len(phrase) - 1) = phrase}
    IN  IF starts = {} THEN 0
        ELSE CHOOSE i \in starts : \A j \in starts : i <= j

\* Utterance.__contains__
Contains(utt, phrase) == find(utt, phrase) # 0

\* Utterance.replace: the first occurrence of orig replaced by replacement
replace(utt, orig, replacement) ==
    LET pos == find(utt, orig)
    IN  IF pos = 0 THEN utt
        ELSE SubSeq(utt, 1, pos - 1) \o replacement
             \o SubSeq(utt, pos + Len(orig), Len(utt))

\* AbstractedUtterance.phrase2category_label: phrase relabelled as catlab
phrase2category_label(utt, phrase, catlab) == replace(utt, phrase, catlab)

\* AbstractedUtterance.from_utterance: a new utterance of the same tokens
from_utterance(utt) == utt

\* Utterance.lower: every token lower-cased (in place, see the actions)
lower(utt) == [i \in DOMAIN utt |-> Lower(utt[i])]

(***************************************************************************)
(* CategoryLabelDatabase                                                   *)
(***************************************************************************)
\* str.split(): the words of a phrase
split(phrase) == SelectSeq(phrase, LAMBDA c : c # " ")

\* normalise_database: every phrase of every value of every slot split
normalise_database(db) ==
    [n \in DOMAIN db |->
        <<db[n][1],
          [v \in DOMAIN db[n][2] |->
              <<db[n][2][v][1],
                [p \in DOMAIN db[n][2][v][2] |-> split(db[n][2][v][2][p])]>>]>>]

RECURSIVE ConcatAll(_)
ConcatAll(ss) == IF ss = <<>> THEN <<>> ELSE Head(ss) \o ConcatAll(Tail(ss))

\* the (form, value, name) triples in the order of the three nested loops
Triples(db) ==
    ConcatAll([n \in DOMAIN db |->
        ConcatAll([v \in DOMAIN db[n][2] |->
            [p \in DOMAIN db[n][2][v][2] |->
                <<db[n][2][v][2][p], db[n][2][v][1], db[n][1]>>]])])

\* x put behind every element whose form is at least as long as x's
InsertByLen(x, sorted) ==
    LET before == {i \in DOMAIN sorted : Len(sorted[i][1]) >= Len(x[1])}
        k == Cardinality(before)
    IN  SubSeq(sorted, 1, k) \o <<x>> \o SubSeq(sorted, k + 1, Len(sorted))

\* list.sort(key=len of the form, reverse=True): stable, longest first
RECURSIVE SortByLenDesc(_)
SortByLenDesc(s) ==
    IF s = <<>> THEN <<>>
    ELSE InsertByLen(s[Len(s)], SortByLenDesc(SubSeq(s, 1, Len(s) - 1)))

\* gen_synonym_value_category: the triples of the database are appended to
\* the list the object already holds, and the list is sorted
gen_synonym_value_category(svc, db) == SortByLenDesc(svc \o Triples(db))

\* the list computed by the property form_val_upname
derive_form_val_upname(svc) ==
    [i \in DOMAIN svc |-> <<svc[i][1], svc[i][2], Upper(svc[i][3])>>]

\* upnames_vals4form[form][upname]: the values in the order of appending
ValsOf(fvu, form, upname) ==
    LET hits == SelectSeq(fvu, LAMBDA t : t[1] = form /\ t[3] = upname)
    IN  [i \in DOMAIN hits |-> hits[i][2]]

UpnamesOf(fvu, form) == {fvu[i][3] : i \in {j \in DOMAIN fvu : fvu[j][1] = form}}

\* a variant of derive_form_upnames_vals without the sort by length
derive_form_upnames_vals_unsorted(fvu) ==
    LET forms == {fvu[i][1] : i \in DOMAIN fvu}
        allp  == UNION {Perms(UpnamesOf(fvu, f)) : f \in forms}
        inner == {d \in [forms -> allp] :
                     \A f \in forms : d[f] \in Perms(UpnamesOf(fvu, f))}
    IN  {[i \in DOMAIN o |->
            <<o[i], [j \in DOMAIN d[o[i]] |->
                        <<d[o[i]][j], ValsOf(fvu, o[i], d[o[i]][j])>>]>>]
         : o \in Perms(forms), d \in inner}

\* the lists the property form_upnames_vals can compute: one entry per
\* form, longest first; the order among forms of one length and the order of
\* the slots of a form are those of a dict's iteration, any order
derive_form_upnames_vals(fvu) ==
    LET forms == {fvu[i][1] : i \in DOMAIN fvu}
        outer == {o \in Perms(forms) :
                     \A i, j \in DOMAIN o : i < j => Len(o[i]) >= Len(o[j])}
        allp  == UNION {Perms(UpnamesOf(fvu, f)) : f \in forms}
        inner == {d \in [forms -> allp] :
                     \A f \in forms : d[f] \in Perms(UpnamesOf(fvu, f))}
    IN  {[i \in DOMAIN o |->
            <<o[i], [j \in DOMAIN d[o[i]] |->
                        <<d[o[i]][j], ValsOf(fvu, o[i], d[o[i]][j])>>]>>]
         : o \in outer, d \in inner}

\* a cache attribute: None, or the list it holds
None == [isNone |-> TRUE, list |-> <<>>]
Some(l) == [isNone |-> FALSE, list |-> l]

(***************************************************************************)
(* The database sources of the model (the `database' object of the loaded  *)
(* module), each a dict slot name -> value -> [phrase, ...].               *)
(***************************************************************************)
\* the example database: one value with two surfaces
SrcPrague ==
    << <<"city", << <<"Prague", << <<"Prague">>, <<"Praha">> >> >> >> >> >>

\* a value that is not among its own surfaces
SrcPraha ==
    << <<"city", << <<"Prague", << <<"Praha">> >> >> >> >> >>

\* a surface that is a part of a longer one
SrcVary ==
    << <<"city", << <<"KV", << <<"Karlovy", " ", "Vary">> >> >>,
                    <<"Vary", << <<"Vary">> >> >> >> >> >>

\* a surface shared by two slots, and a second surface of the value Prague
SrcHomonym ==
    << <<"city", << <<"Prague", << <<"Praha">>, <<"Prague">> >> >> >> >>,
       <<"stop", << <<"Praha", << <<"Praha">> >> >> >> >> >>

\* a surface that holds a word equal to an upper-cased slot name
SrcLabelWord ==
    << <<"city", << <<"Prague", << <<"to", " ", "Praha">> >> >> >> >>,
       <<"stop", << <<"Vary", << <<"CITY", " ", "Vary">> >> >> >> >> >>

Sources == {SrcPrague, SrcPraha, SrcVary, SrcHomonym, SrcLabelWord}

VARIABLES
    \* CategoryLabelDatabase
    database,                \* self.database
    synonym_value_category,  \* self.synonym_value_category
    _form_val_upname,        \* self._form_val_upname
    _form_upnames_vals,      \* self._form_upnames_vals
    loads,                   \* the number of calls of load so far
    \* SLUPreprocessing
    text_normalization,      \* the argument __init__ was given
    text_normalization_mapping,
    \* the call of a method of SLUPreprocessing in progress, or the last one
    op,                      \* the method called
    kind,                    \* the type of its argument: utterance, nblist
    pc,                      \* where the call is: idle, scan, align, done
    arg,                     \* the caller's argument object, as it is now
    arg0,                    \* the argument as it was when the call began
    orig,                    \* the argument of the forward call before it
    cp,                      \* utterance_cp / nblist_cp / confnet_cp
    cp_is_arg,               \* whether cp is the caller's object itself
    category_label_counter,
    valform_for_cl,
    tot_len,                 \* utt_len / tot_len
    substituted_len,
    todo,                    \* the index entries the loop has not visited
    matched,                 \* history: the matches of the call, in order
    da,                      \* the caller's dialogue act, as it is now
    da0,                     \* the dialogue act as it was when the call began
    orig_da,                 \* the dialogue act of the forward call before it
    err,                     \* the exception the call raised, "" if none
    ret,                     \* what the call returned
    \* SLUInterface
    called,                  \* the parse_* methods parse has called, in order
    \* calls made from several threads on one engine
    threads                  \* per thread: where its call is, and its locals

dbvars == <<database, synonym_value_category, _form_val_upname,
            _form_upnames_vals, loads, text_normalization,
            text_normalization_mapping>>
callvars == <<op, kind, pc, arg, arg0, orig, cp, cp_is_arg,
              category_label_counter, valform_for_cl, tot_len,
              substituted_len, todo, matched, da, da0, orig_da, err, ret>>
vars == <<dbvars, callvars, called, threads>>

\* the threads that call the engine, and a thread that is not in a call
Threads == {1, 2}
IdleThread ==
    [pc |-> "idle", input |-> <<>>, fvu |-> <<>>, idx |-> <<>>,
     computed |-> FALSE, rep |-> <<>>, valform |-> EmptyMap, err |-> ""]

\* the return value of a call: the representation, the dialogue act and the
\* substitution record (those the method returns)
\* is_arg: whether an object returned is an argument object of the caller
Ret(rep, d, rec, is_arg) ==
    [rep |-> rep, da |-> d, valform |-> rec, is_arg |-> is_arg]
NoRet == Ret(<<>>, <<>>, EmptyMap, FALSE)

\* copy.deepcopy: an equal value in a new object
deepcopy(x) == [value |-> x, is_arg |-> FALSE]

(***************************************************************************)
(* CategoryLabelDatabase: construction and the two cached properties.      *)
(***************************************************************************)
\* __init__(file_name) with a file name: load, then both caches None
InitDatabaseOf(src) ==
    /\ database = normalise_database(src)
    /\ synonym_value_category =
           gen_synonym_value_category(<<>>, normalise_database(src))
    /\ _form_val_upname = None
    /\ _form_upnames_vals = None
    /\ loads = 1

InitDatabase == \E src \in Sources : InitDatabaseOf(src)

\* the rules SLUPreprocessing.__init__ installs when it is given none
DefaultMapping ==
    << << <<"erm">>, <<>> >>,
       << <<"uhm">>, <<>> >>,
       << <<"um">>, <<>> >>,
       << <<"i'm">>, <<"i", "am">> >>,
       << <<"(sil)">>, <<>> >>,
       << <<"(%hesitation)">>, <<>> >>,
       << <<"(hesitation)">>, <<>> >> >>

\* SLUPreprocessing.__init__: text_normalization is None or a list of
\* rules; None and the empty list are both false in `if text_normalization'
SLUPreprocessing_init(tn) ==
    IF ~tn.isNone /\ tn.list # <<>> THEN tn.list ELSE DefaultMapping

\* the engine built with the argument tn
InitPreprocessingWith(tn) ==
    /\ text_normalization = tn
    /\ text_normalization_mapping = SLUPreprocessing_init(tn)

\* the engine is built without rules of the caller's
InitPreprocessing == InitPreprocessingWith(None)

\* the property form_val_upname: the list it returns
form_val_upname ==
    IF _form_val_upname.isNone
    THEN derive_form_val_upname(synonym_value_category)
    ELSE _form_val_upname.list

\* the property form_upnames_vals: the lists it can return
form_upnames_vals ==
    IF _form_upnames_vals.isNone
    THEN derive_form_upnames_vals(form_val_upname)
    ELSE {_form_upnames_vals.list}

\* the effect of reading form_upnames_vals, idx being the list returned
read_form_upnames_vals(idx) ==
    /\ idx \in form_upnames_vals
    /\ _form_upnames_vals' = Some(idx)
    /\ _form_val_upname' =
           IF _form_upnames_vals.isNone THEN Some(form_val_upname)
           ELSE _form_val_upname
    /\ UNCHANGED <<database, synonym_value_category, loads,
                   text_normalization, text_normalization_mapping>>

\* the modules load_as_module can return: with a `database' object or
\* without one
Modules == {[has_database |-> TRUE, shape |-> "ok", database |-> src] :
               src \in Sources}
           \cup {[has_database |-> FALSE, shape |-> "", database |-> <<>>]}

\* sources of another shape than slot -> value -> [phrase, ...]:
\* {'street': ['Main']}, a list where the dict of the values should be, and
\* {'city': {'Prague': 'a b'}}, a string where the list of phrases should be
SrcListForSlot == << <<"street", << <<"Main">> >> >> >>
SrcStringForPhrases == << <<"city", << <<"Prague", <<"a", " ", "b">> >> >> >> >>

MalformedModules ==
    {[has_database |-> TRUE, shape |-> "list_for_slot",
      database |-> SrcListForSlot],
     [has_database |-> TRUE, shape |-> "string_for_phrases",
      database |-> SrcStringForPhrases]}

\* normalise_database on a source whose phrase lists are strings: map runs
\* over the characters of the string, each split on its own
normalise_database_of_strings(db) ==
    [n \in DOMAIN db |->
        <<db[n][1],
          [v \in DOMAIN db[n][2] |->
              <<db[n][2][v][1],
                [c \in DOMAIN db[n][2][v][2] |->
                    split(<<db[n][2][v][2][c]>>)]>>]>>]

\* __init__(file_name) with or without a file name
InitDatabaseAny ==
    \/ InitDatabase
    \/ /\ database = <<>>
       /\ synonym_value_category = <<>>
       /\ _form_val_upname = None
       /\ _form_upnames_vals = None
       /\ loads = 0

InitCall ==
    /\ op = "" /\ kind = "" /\ pc = "idle"
    /\ arg = <<>> /\ arg0 = <<>> /\ orig = <<>>
    /\ cp = <<>> /\ cp_is_arg = FALSE
    /\ category_label_counter = EmptyMap /\ valform_for_cl = EmptyMap
    /\ tot_len = 0 /\ substituted_len = 0
    /\ todo = <<>> /\ matched = <<>>
    /\ da = <<>> /\ da0 = <<>> /\ orig_da = <<>>
    /\ err = "" /\ ret = NoRet
    /\ called = <<>>
    /\ threads = [t \in Threads |-> IdleThread]

Init == InitDatabase /\ InitPreprocessing /\ InitCall

(***************************************************************************)
(* SLUPreprocessing.values2category_labels_in_utterance                    *)
(***************************************************************************)
\* the words of the inputs: those of the surface forms of the database and
\* its values, and in an utterance one word more, which the database does
\* not know
HypWords ==
    UNION {Range(synonym_value_category[i][1]) :
              i \in DOMAIN synonym_value_category}
    \cup {synonym_value_category[i][2] : i \in DOMAIN synonym_value_category}

Words == HypWords \cup {"to"}

Utterances == SeqsUpTo(Words, MaxUttLen)

\* the category label of a match in an utterance (idx is not in the format)
category_label_utterance(slot_upper, idx) == slot_upper

\* the two substitutions: surface -> (value, ), then (value, ) -> label
substitute(utt, surface, value, category_label) ==
    phrase2category_label(replace(utt, surface, <<value>>),
                          <<value>>, <<category_label>>)

\* utterance_cp = AbstractedUtterance.from_utterance(utterance)
utterance_cp_of(utt) == [value |-> from_utterance(utt), is_arg |-> FALSE]

\* where a call goes when its scan is over
AfterScan == IF op = "values2category_labels_in_da" THEN "align" ELSE "done"

\* the call begins: the copy, the counters, the index to scan
BeginUtterance(utt, method) ==
    /\ pc = "idle"
    /\ \E idx \in form_upnames_vals :
        /\ read_form_upnames_vals(idx)
        /\ todo' = idx
        /\ pc' = IF idx = <<>> THEN
                    (IF method = "values2category_labels_in_da"
                     THEN "align" ELSE "done")
                 ELSE "scan"
        /\ ret' = IF idx = <<>> /\ method # "values2category_labels_in_da"
                  THEN Ret(utterance_cp_of(utt).value, <<>>, EmptyMap,
                           utterance_cp_of(utt).is_arg)
                  ELSE NoRet
    /\ op' = method /\ kind' = "utterance"
    /\ arg' = utt /\ arg0' = utt /\ orig' = utt
    /\ cp' = utterance_cp_of(utt).value
    /\ cp_is_arg' = utterance_cp_of(utt).is_arg
    /\ category_label_counter' = EmptyMap /\ valform_for_cl' = EmptyMap
    /\ tot_len' = Len(utt) /\ substituted_len' = 0
    /\ matched' = <<>> /\ err' = ""

values2category_labels_in_utterance ==
    /\ pc = "idle"
    /\ \E utt \in Utterances :
           BeginUtterance(utt, "values2category_labels_in_utterance")
    /\ da' = <<>> /\ da0' = <<>> /\ orig_da' = <<>>
    /\ UNCHANGED <<called, threads>>

\* one pass of the loop over the index, on an utterance
scan_utterance ==
    /\ pc = "scan" /\ kind = "utterance"
    /\ LET surface == Head(todo)[1]
           upnames_vals == Head(todo)[2]
           hit == Contains(cp, surface)
           sub == substituted_len + Len(surface)
           slot_upper == upnames_vals[1][1]
           value == upnames_vals[1][2][1]
           category_label ==
               category_label_utterance(
                   slot_upper, Count(category_label_counter, slot_upper))
           new_cp == IF hit
                     THEN substitute(cp, surface, value, category_label)
                     ELSE cp
           new_rec == IF hit
                      THEN (category_label :> <<value, surface>>)
                           @@ valform_for_cl
                      ELSE valform_for_cl
           stop == hit /\ sub >= tot_len
           failed == stop /\ sub # tot_len
           next == IF failed THEN "done"
                   ELSE IF stop \/ Tail(todo) = <<>> THEN AfterScan
                   ELSE "scan"
       IN  /\ cp' = new_cp
           /\ valform_for_cl' = new_rec
           /\ substituted_len' = IF hit THEN sub ELSE substituted_len
           /\ category_label_counter' =
                  IF hit
                  THEN (slot_upper :>
                           Count(category_label_counter, slot_upper) + 1)
                       @@ category_label_counter
                  ELSE category_label_counter
           /\ matched' =
                  IF hit
                  THEN Append(matched,
                              [surface |-> surface, slot |-> slot_upper,
                               value |-> value, label |-> category_label,
                               hyps |-> {1}])
                  ELSE matched
           /\ todo' = Tail(todo)
           /\ err' = IF failed THEN "AssertionError" ELSE ""
           /\ pc' = next
           /\ cp_is_arg' = (cp_is_arg /\ ~hit)
           /\ ret' = IF next = "done" /\ ~failed
                     THEN Ret(new_cp, <<>>, new_rec, cp_is_arg /\ ~hit)
                     ELSE NoRet
    /\ UNCHANGED <<dbvars, op, kind, arg, arg0, orig, tot_len, da, da0,
                   orig_da>>
    /\ UNCHANGED <<called, threads>>

(***************************************************************************)
(* SLUPreprocessing.category_labels2values_in_utterance                    *)
(***************************************************************************)
\* the loop over the record, visiting its labels in the order keys
RECURSIVE restore_labels(_, _, _)
restore_labels(utt, category_labels, keys) ==
    IF keys = <<>> THEN utt
    ELSE restore_labels(
             phrase2category_label(utt, <<Head(keys)>>,
                                   category_labels[Head(keys)][2]),
             category_labels, Tail(keys))

\* called with the utterance and the record a forward call returned; the
\* record is a dict, visited in any order
category_labels2values_in_utterance ==
    /\ pc = "done" /\ op = "values2category_labels_in_utterance"
    /\ err = ""
    /\ \E keys \in Perms(DOMAIN ret.valform) :
           ret' = Ret(restore_labels(deepcopy(ret.rep).value, ret.valform,
                                     keys),
                      <<>>, EmptyMap,
                      /\ deepcopy(ret.rep).is_arg
                      /\ \A cl \in DOMAIN ret.valform : ~Contains(ret.rep, <<cl>>))
    /\ op' = "category_labels2values_in_utterance"
    /\ arg' = ret.rep /\ arg0' = ret.rep
    /\ cp' = deepcopy(ret.rep).value /\ cp_is_arg' = deepcopy(ret.rep).is_arg
    /\ valform_for_cl' = ret.valform
    /\ UNCHANGED <<dbvars, kind, pc, orig, category_label_counter, tot_len,
                   substituted_len, todo, matched, da, da0, orig_da, err>>
    /\ UNCHANGED <<called, threads>>

\* the turn is over: the caller drops the results of the call
end_turn ==
    /\ pc = "done"
    /\ op' = "" /\ kind' = "" /\ pc' = "idle"
    /\ arg' = <<>> /\ arg0' = <<>> /\ orig' = <<>>
    /\ cp' = <<>> /\ cp_is_arg' = FALSE
    /\ category_label_counter' = EmptyMap /\ valform_for_cl' = EmptyMap
    /\ tot_len' = 0 /\ substituted_len' = 0
    /\ todo' = <<>> /\ matched' = <<>>
    /\ da' = <<>> /\ da0' = <<>> /\ orig_da' = <<>>
    /\ err' = "" /\ ret' = NoRet
    /\ called' = <<>>
    /\ UNCHANGED <<dbvars, threads>>

NextUtt ==
    \/ values2category_labels_in_utterance
    \/ scan_utterance
    \/ category_labels2values_in_utterance
    \/ end_turn

SpecUtt == Init /\ [][NextUtt]_vars

(***************************************************************************)
(* CategoryLabelDatabase.load and the reads of the two properties.         *)
(***************************************************************************)
\* a variant of invalidated that leaves the cache as it is
kept(cache) == cache

\* self._form_val_upname = None, self._form_upnames_vals = None
invalidated(cache) == None

\* load of the module db_mod. When the slot of the source holds a
\* list, self.database[name][value] in normalise_database raises TypeError,
\* after self.database was assigned the source
load_module(db_mod) ==
    /\ pc = "idle" /\ loads < MaxLoads
    /\  /\ arg' = db_mod
        /\ IF ~db_mod.has_database
           THEN /\ err' = "SLUException"
                /\ UNCHANGED <<database, synonym_value_category,
                               _form_val_upname, _form_upnames_vals>>
           ELSE IF db_mod.shape = "list_for_slot"
           THEN /\ database' = db_mod.database
                /\ err' = "TypeError"
                /\ UNCHANGED <<synonym_value_category,
                               _form_val_upname, _form_upnames_vals>>
           ELSE LET new_db == IF db_mod.shape = "string_for_phrases"
                              THEN normalise_database_of_strings(
                                       db_mod.database)
                              ELSE normalise_database(db_mod.database)
                IN  /\ database' = new_db
                    /\ synonym_value_category' =
                           gen_synonym_value_category(
                               synonym_value_category, new_db)
                    /\ _form_val_upname' = invalidated(_form_val_upname)
                    /\ _form_upnames_vals' =
                           invalidated(_form_upnames_vals)
                    /\ err' = ""
    /\ loads' = loads + 1
    /\ op' = "load" /\ ret' = NoRet
    /\ UNCHANGED <<text_normalization, text_normalization_mapping, kind, pc, arg0, orig, cp,
                   cp_is_arg, category_label_counter, valform_for_cl,
                   tot_len, substituted_len, todo, matched, da, da0,
                   orig_da>>
    /\ UNCHANGED <<called, threads>>

load ==
    /\ pc = "idle"
    /\ \E db_mod \in Modules : load_module(db_mod)

load_malformed ==
    /\ pc = "idle"
    /\ \E db_mod \in MalformedModules : load_module(db_mod)

\* a read of the property form_val_upname
get_form_val_upname ==
    /\ pc = "idle"
    /\ _form_val_upname' = Some(form_val_upname)
    /\ op' = "form_val_upname" /\ err' = ""
    /\ ret' = Ret(form_val_upname, <<>>, EmptyMap, FALSE)
    /\ UNCHANGED <<database, synonym_value_category, _form_upnames_vals,
                   loads, text_normalization, text_normalization_mapping>>
    /\ UNCHANGED <<kind, pc, arg, arg0, orig, cp, cp_is_arg,
                   category_label_counter, valform_for_cl, tot_len,
                   substituted_len, todo, matched, da, da0, orig_da>>
    /\ UNCHANGED <<called, threads>>

\* a read of the property form_upnames_vals
get_form_upnames_vals ==
    /\ pc = "idle"
    /\ \E idx \in form_upnames_vals :
        /\ read_form_upnames_vals(idx)
        /\ ret' = Ret(idx, <<>>, EmptyMap, FALSE)
    /\ op' = "form_upnames_vals" /\ err' = ""
    /\ UNCHANGED <<kind, pc, arg, arg0, orig, cp, cp_is_arg,
                   category_label_counter, valform_for_cl, tot_len,
                   substituted_len, todo, matched, da, da0, orig_da>>
    /\ UNCHANGED <<called, threads>>

NextDB ==
    \/ load
    \/ get_form_val_upname
    \/ get_form_upnames_vals

InitDB == InitDatabaseAny /\ InitPreprocessing /\ InitCall

SpecDB == InitDB /\ [][NextDB]_vars

\* the same with loads of sources of another shape
NextLoad ==
    \/ load
    \/ load_malformed
    \/ get_form_val_upname
    \/ get_form_upnames_vals

SpecLoad == InitDB /\ [][NextLoad]_vars

(***************************************************************************)
(* SLUPreprocessing.values2category_labels_in_uttnblist                    *)
(* An n-best list is the sequence of its hypotheses, each the utterance    *)
(* hyp[1]; the probabilities hyp[0] are not read by the code modelled.     *)
(***************************************************************************)
NBLists == SeqsUpTo(SeqsUpTo(HypWords, MaxHypLen), MaxHyps)

RECURSIVE SumLen(_)
SumLen(nblist) ==
    IF nblist = <<>> THEN 0 ELSE Len(Head(nblist)) + SumLen(Tail(nblist))

\* variants of the three operators below, each without the step a property
\* of the n-best list call rests on: a label without the instance index,
\* a substitution in the first hypothesis only, a copy that is no copy
category_label_without_idx(slot_upper, idx) == slot_upper

substitute_in_first_hyp(nblist, hyps, surface, value, category_label) ==
    [i \in DOMAIN nblist |->
        IF i \in hyps /\ \A j \in hyps : i <= j
        THEN phrase2category_label(replace(nblist[i], surface, <<value>>),
                                   <<value>>, <<category_label>>)
        ELSE nblist[i]]

nblist_cp_alias(utt_nblist) == [value |-> utt_nblist, is_arg |-> TRUE]

\* the category label of a match in an n-best list
category_label_uttnblist(slot_upper, idx) ==
    slot_upper \o "-" \o ToString(idx)

\* the indices of the hypotheses that contain surface
hyps_with_surface(nblist, surface) ==
    {i \in DOMAIN nblist : Contains(nblist[i], surface)}

\* the loop over hyps_with_surface: the two substitutions in each of them
substitute_in_hyps(nblist, hyps, surface, value, category_label) ==
    [i \in DOMAIN nblist |->
        IF i \in hyps
        THEN substitute(nblist[i], surface, value, category_label)
        ELSE nblist[i]]

\* nblist_cp = copy.deepcopy(utt_nblist)
nblist_cp_of(utt_nblist) == deepcopy(utt_nblist)

BeginNBList(nblist, method) ==
    /\ \E idx \in form_upnames_vals :
        /\ read_form_upnames_vals(idx)
        /\ todo' = idx
        /\ pc' = IF idx = <<>> THEN
                    (IF method = "values2category_labels_in_da"
                     THEN "align" ELSE "done")
                 ELSE "scan"
        /\ ret' = IF idx = <<>> /\ method # "values2category_labels_in_da"
                  THEN Ret(nblist_cp_of(nblist).value, <<>>, EmptyMap,
                           nblist_cp_of(nblist).is_arg)
                  ELSE NoRet
    /\ op' = method /\ kind' = "nblist"
    /\ arg' = nblist /\ arg0' = nblist /\ orig' = nblist
    /\ cp' = nblist_cp_of(nblist).value
    /\ cp_is_arg' = nblist_cp_of(nblist).is_arg
    /\ category_label_counter' = EmptyMap /\ valform_for_cl' = EmptyMap
    /\ tot_len' = SumLen(nblist) /\ substituted_len' = 0
    /\ matched' = <<>> /\ err' = ""

values2category_labels_in_uttnblist ==
    /\ pc = "idle"
    /\ \E nblist \in NBLists :
           BeginNBList(nblist, "values2category_labels_in_uttnblist")
    /\ da' = <<>> /\ da0' = <<>> /\ orig_da' = <<>>
    /\ UNCHANGED <<called, threads>>

\* one pass of the loop over the index, on an n-best list
scan_uttnblist ==
    /\ pc = "scan" /\ kind = "nblist"
    /\ LET surface == Head(todo)[1]
           upnames_vals == Head(todo)[2]
           hyps == hyps_with_surface(cp, surface)
           hit == hyps # {}
           sub == substituted_len + Len(surface) * Cardinality(hyps)
           slot_upper == upnames_vals[1][1]
           value == upnames_vals[1][2][1]
           category_label ==
               category_label_uttnblist(
                   slot_upper, Count(category_label_counter, slot_upper))
           new_cp == IF hit
                     THEN substitute_in_hyps(cp, hyps, surface, value,
                                             category_label)
                     ELSE cp
           new_rec == IF hit
                      THEN (category_label :> <<value, surface>>)
                           @@ valform_for_cl
                      ELSE valform_for_cl
           stop == hit /\ sub >= tot_len
           failed == stop /\ sub # tot_len
           next == IF failed THEN "done"
                   ELSE IF stop \/ Tail(todo) = <<>> THEN AfterScan
                   ELSE "scan"
       IN  /\ cp' = new_cp
           /\ valform_for_cl' = new_rec
           /\ substituted_len' = IF hit THEN sub ELSE substituted_len
           /\ category_label_counter' =
                  IF hit
                  THEN (slot_upper :>
                           Count(category_label_counter, slot_upper) + 1)
                       @@ category_label_counter
                  ELSE category_label_counter
           /\ matched' =
                  IF hit
                  THEN Append(matched,
                              [surface |-> surface, slot |-> slot_upper,
                               value |-> value, label |-> category_label,
                               hyps |-> hyps])
                  ELSE matched
           /\ todo' = Tail(todo)
           /\ err' = IF failed THEN "AssertionError" ELSE ""
           /\ pc' = next
           \* nblist_cp[hyp_idx][1] = ... changes the list object in place
           /\ arg' = IF cp_is_arg THEN new_cp ELSE arg
           /\ ret' = IF next = "done" /\ ~failed
                     THEN Ret(new_cp, <<>>, new_rec, cp_is_arg) ELSE NoRet
    /\ UNCHANGED <<dbvars, op, kind, arg0, orig, cp_is_arg, tot_len,
                   da, da0, orig_da>>
    /\ UNCHANGED <<called, threads>>

(***************************************************************************)
(* SLUPreprocessing.category_labels2values_in_uttnblist                    *)
(***************************************************************************)
\* called with the n-best list and the record a forward call returned. The
\* loop variable is an item [prob, utterance] of the copy, a list, which has
\* no method phrase2category_label: the first pass of the inner loop raises
\* AttributeError. With an empty list or an empty record the inner loop
\* body is never run and the copy is returned.
category_labels2values_in_uttnblist ==
    /\ pc = "done" /\ op = "values2category_labels_in_uttnblist"
    /\ err = ""
    /\ IF ret.rep # <<>> /\ DOMAIN ret.valform # {}
       THEN err' = "AttributeError" /\ ret' = NoRet
       ELSE err' = "" /\ ret' = Ret(deepcopy(ret.rep).value, <<>>, EmptyMap,
                                   deepcopy(ret.rep).is_arg)
    /\ op' = "category_labels2values_in_uttnblist"
    /\ arg' = ret.rep /\ arg0' = ret.rep
    /\ cp' = deepcopy(ret.rep).value /\ cp_is_arg' = deepcopy(ret.rep).is_arg
    /\ valform_for_cl' = ret.valform
    /\ UNCHANGED <<dbvars, kind, pc, orig, category_label_counter, tot_len,
                   substituted_len, todo, matched, da, da0, orig_da>>
    /\ UNCHANGED <<called, threads>>

\* __init__ on one of the sources whose words the hypotheses are drawn from
InitNB ==
    /\ InitDatabase
    /\ database # normalise_database(SrcLabelWord)
    /\ InitPreprocessing
    /\ InitCall

NextNB ==
    \/ values2category_labels_in_uttnblist
    \/ scan_uttnblist
    \/ category_labels2values_in_uttnblist
    \/ end_turn

SpecNB == InitNB /\ [][NextNB]_vars

(***************************************************************************)
(* SLUPreprocessing.values2category_labels_in_da and                       *)
(* category_labels2values_in_da                                            *)
(* A dialogue act is the sequence of its items; an item is its slot name   *)
(* and its value, the value held as the sequence of the words of the       *)
(* string (a literal value and a category label are one word).             *)
(***************************************************************************)
\* longest hypothesis of an n-best list handed over with a dialogue act
MaxDaHypLen == 1

\* DialogueActItem.value2category_label: the value becomes the label
value2category_label(dai, label) == [dai EXCEPT !.value = <<label>>]

\* DialogueActItem.category_label2value: a label that has an entry in the
\* record becomes the surface form recorded for it; any other value stays
category_label2value(dai, catlabs) ==
    IF Len(dai.value) = 1 /\ dai.value[1] \in DOMAIN catlabs
    THEN [dai EXCEPT !.value = catlabs[dai.value[1]][2]]
    ELSE dai

SlotNames == {synonym_value_category[i][3] :
                 i \in DOMAIN synonym_value_category}
Values == {synonym_value_category[i][2] :
              i \in DOMAIN synonym_value_category}

Dais == {[name |-> n, value |-> <<v>>] : n \in SlotNames, v \in Values}
DAs == SeqsUpTo(Dais, MaxDais)

\* the dicts {value: label} the comprehension over the items of the record
\* can build: of the labels recorded for one value, the one visited last
cl_for_value_of(rec) ==
    LET vals == {rec[cl][1] : cl \in DOMAIN rec}
    IN  {f \in [vals -> DOMAIN rec] : \A v \in vals : rec[f[v]][1] = v}

\* a variant of align_dai without the lookup in the database
align_dai_by_record_only(dai, cl_for_value, fvu) ==
    IF dai.value[1] \in DOMAIN cl_for_value
    THEN value2category_label(dai, cl_for_value[dai.value[1]])
    ELSE dai

\* the body of the loop over the items of the dialogue act
align_dai(dai, cl_for_value, fvu) ==
    IF dai.value[1] \in DOMAIN cl_for_value
    THEN value2category_label(dai, cl_for_value[dai.value[1]])
    ELSE LET matching_triples ==
                 SelectSeq(fvu, LAMBDA tup : /\ tup[2] = dai.value[1]
                                             /\ tup[3] = Upper(dai.name))
         IN  IF matching_triples # <<>>
             THEN value2category_label(dai, matching_triples[1][3])
             ELSE dai

\* da = copy.deepcopy(da)
da_cp_of(d) == deepcopy(d)

\* the call begins with the forward call on utt_hyp, an utterance or an
\* n-best list
values2category_labels_in_da ==
    /\ pc = "idle"
    /\ \/ \E utt \in SeqsUpTo(HypWords, MaxHypLen) :
              BeginUtterance(utt, "values2category_labels_in_da")
       \/ \E nblist \in SeqsUpTo(SeqsUpTo(HypWords, MaxDaHypLen), MaxHyps) :
              BeginNBList(nblist, "values2category_labels_in_da")
    /\ \E d \in DAs : da' = d /\ da0' = d /\ orig_da' = d
    /\ UNCHANGED <<called, threads>>

\* the second half of the call: the items of the dialogue act
align_da ==
    /\ pc = "align"
    /\ \E cl_for_value \in cl_for_value_of(valform_for_cl) :
        LET c == da_cp_of(da)
            new_da == [i \in DOMAIN c.value |->
                          align_dai(c.value[i], cl_for_value,
                                    form_val_upname)]
            fallback == \E i \in DOMAIN c.value :
                            c.value[i].value[1] \notin DOMAIN cl_for_value
        IN  \* value2category_label changes the items of the copy in place
            /\ da' = IF c.is_arg THEN new_da ELSE da
            /\ ret' = Ret(cp, new_da, valform_for_cl,
                          cp_is_arg \/ c.is_arg)
            \* the fallback lookup reads the property form_val_upname
            /\ _form_val_upname' = IF fallback THEN Some(form_val_upname)
                                   ELSE _form_val_upname
    /\ pc' = "done"
    /\ UNCHANGED <<database, synonym_value_category, _form_upnames_vals,
                   loads, text_normalization, text_normalization_mapping, op, kind, arg, arg0, orig, cp, cp_is_arg,
                   category_label_counter, valform_for_cl, tot_len,
                   substituted_len, todo, matched, da0, orig_da, err>>
    /\ UNCHANGED <<called, threads>>

\* called with the dialogue act and the record a forward call returned
category_labels2values_in_da ==
    /\ pc = "done" /\ op = "values2category_labels_in_da" /\ err = ""
    /\ LET c == deepcopy(ret.da)
       IN  ret' = Ret(<<>>,
                      [i \in DOMAIN c.value |->
                          category_label2value(c.value[i], ret.valform)],
                      EmptyMap, c.is_arg)
    /\ op' = "category_labels2values_in_da"
    /\ da' = ret.da /\ da0' = ret.da
    /\ UNCHANGED <<dbvars, kind, pc, arg, arg0, orig, cp, cp_is_arg,
                   category_label_counter, valform_for_cl, tot_len,
                   substituted_len, todo, matched, orig_da, err>>
    /\ UNCHANGED <<called, threads>>

NextDA ==
    \/ values2category_labels_in_da
    \/ scan_utterance
    \/ scan_uttnblist
    \/ align_da
    \/ category_labels2values_in_da
    \/ end_turn

SpecDA == InitNB /\ [][NextDA]_vars

(***************************************************************************)
(* SLUPreprocessing.category_labels2values_in_nblist and                   *)
(* category_labels2values_in_confnet: the backward pass on an n-best list  *)
(* of dialogue acts and on a confusion network of dialogue act items (the  *)
(* probabilities, which the loops skip, are left out).                     *)
(***************************************************************************)
restore_da(d, catlabs) ==
    [i \in DOMAIN d |-> category_label2value(d[i], catlabs)]

\* called with an n-best list of the dialogue act a forward call returned
category_labels2values_in_nblist ==
    /\ pc = "done" /\ op = "values2category_labels_in_da" /\ err = ""
    /\ \E n \in 1..MaxHyps :
        LET nblist == [i \in 1..n |-> ret.da]
            c == deepcopy(nblist)
        IN  /\ ret' = Ret(<<>>,
                          [i \in DOMAIN c.value |->
                              restore_da(c.value[i], ret.valform)],
                          EmptyMap, c.is_arg)
            /\ da' = nblist /\ da0' = nblist
    /\ op' = "category_labels2values_in_nblist"
    /\ UNCHANGED <<dbvars, kind, pc, arg, arg0, orig, cp, cp_is_arg,
                   category_label_counter, valform_for_cl, tot_len,
                   substituted_len, todo, matched, orig_da, err>>
    /\ UNCHANGED <<called, threads>>

\* called with a confusion network of the items of the dialogue act a
\* forward call returned
category_labels2values_in_confnet ==
    /\ pc = "done" /\ op = "values2category_labels_in_da" /\ err = ""
    /\ LET c == deepcopy(ret.da)
       IN  ret' = Ret(<<>>, restore_da(c.value, ret.valform), EmptyMap,
                      c.is_arg)
    /\ op' = "category_labels2values_in_confnet"
    /\ da' = ret.da /\ da0' = ret.da
    /\ UNCHANGED <<dbvars, kind, pc, arg, arg0, orig, cp, cp_is_arg,
                   category_label_counter, valform_for_cl, tot_len,
                   substituted_len, todo, matched, orig_da, err>>
    /\ UNCHANGED <<called, threads>>

(***************************************************************************)
(* The utterance confusion network                                         *)
(* (alex.components.asr.utterance.UtteranceConfusionNetwork), by the       *)
(* capabilities the engine requires of it. A confusion network is the      *)
(* sequence of its positions, each the set of the alternative words there  *)
(* (their probabilities are not read by the code modelled).                *)
(***************************************************************************)
\* longest confusion network, most alternatives at a position
MaxCnLen == 2
MaxAlts == 2

AltSets(W) == {A \in SUBSET W : Cardinality(A) \in 1..MaxAlts}

\* the first index where the words of phrase are alternatives of
\* successive positions, 0 if there is none
cn_find(cn, phrase) ==
    LET starts == {i \in 1..(Len(cn) - Len(phrase) + 1) :
                      \A k \in DOMAIN phrase : phrase[k] \in cn[i + k - 1]}
    IN  IF phrase = <<>> \/ starts = {} THEN 0
        ELSE CHOOSE i \in starts : \A j \in starts : i <= j

cn_contains(cn, phrase) == cn_find(cn, phrase) # 0

\* the first occurrence of phrase gives way to the words of replacement
cn_replace(cn, phrase, replacement) ==
    LET at == cn_find(cn, phrase)
    IN  IF at = 0 THEN cn
        ELSE SubSeq(cn, 1, at - 1)
             \o [k \in DOMAIN replacement |-> {replacement[k]}]
             \o SubSeq(cn, at + Len(phrase), Len(cn))

cn_phrase2category_label(cn, phrase, catlab) == cn_replace(cn, phrase, catlab)

cn_lower(cn) == [i \in DOMAIN cn |-> {Lower(w) : w \in cn[i]}]

(***************************************************************************)
(* SLUPreprocessing.text_normalisation and normalise_confnet               *)
(***************************************************************************)
\* what a caller hands to __init__: nothing (None), the empty list of rules,
\* or a list of one rule
TextNormalizations ==
    {None, Some(<<>>), Some(<< << <<"praha">>, <<"prague">> >> >>)}

\* the words of the recogniser's output
NormWords == {"UHM", "uhm", "I'M", "Praha"}

\* the loop over the rules, on an utterance
RECURSIVE normalise_utterance(_, _)
normalise_utterance(utt, mapping) ==
    IF mapping = <<>> THEN utt
    ELSE normalise_utterance(replace(utt, Head(mapping)[1], Head(mapping)[2]),
                             Tail(mapping))

\* the loop over the rules, on a confusion network
RECURSIVE normalise_cn(_, _)
normalise_cn(cn, mapping) ==
    IF mapping = <<>> THEN cn
    ELSE normalise_cn(cn_replace(cn, Head(mapping)[1], Head(mapping)[2]),
                      Tail(mapping))

\* the frame of a call that is one step
OneStep(method, k) ==
    /\ pc = "idle"
    /\ op' = method /\ kind' = k /\ pc' = "done"
    /\ orig' = <<>> /\ cp_is_arg' = FALSE
    /\ category_label_counter' = EmptyMap
    /\ tot_len' = 0 /\ substituted_len' = 0
    /\ todo' = <<>> /\ matched' = <<>>
    /\ da' = <<>> /\ da0' = <<>> /\ orig_da' = <<>>
    /\ err' = ""
    /\ UNCHANGED <<called, threads>>

\* utterance.lower() is called for its effect and its result is dropped:
\* either lower() changes the object it is called on (in_place), and the
\* caller's utterance is lower-cased, or it returns a new object, and the
\* rules are applied to the utterance as it came
text_normalisation ==
    /\ OneStep("text_normalisation", "utterance")
    /\ \E utt \in SeqsUpTo(NormWords, MaxUttLen), in_place \in BOOLEAN :
        LET utterance == IF in_place THEN lower(utt) ELSE utt
            out == normalise_utterance(utterance, text_normalization_mapping)
        IN  /\ arg0' = utt
            /\ arg' = utterance
            /\ cp' = out
            /\ ret' = Ret(out, <<>>, EmptyMap, out = utterance)
    /\ valform_for_cl' = EmptyMap
    /\ UNCHANGED dbvars

\* the same on a confusion network
normalise_confnet ==
    /\ OneStep("normalise_confnet", "confnet")
    /\ \E confnet \in SeqsUpTo(AltSets(NormWords), MaxCnLen),
          in_place \in BOOLEAN :
        LET c == IF in_place THEN cn_lower(confnet) ELSE confnet
            out == normalise_cn(c, text_normalization_mapping)
        IN  /\ arg0' = confnet
            /\ arg' = c
            /\ cp' = out
            /\ ret' = Ret(out, <<>>, EmptyMap, out = c)
    /\ valform_for_cl' = EmptyMap
    /\ UNCHANGED dbvars

\* __init__ of the engine with or without rules of the caller's, on one
\* database
InitNorm ==
    /\ InitDatabaseOf(SrcPrague)
    /\ \E tn \in TextNormalizations : InitPreprocessingWith(tn)
    /\ InitCall

NextNorm ==
    \/ text_normalisation
    \/ normalise_confnet
    \/ end_turn

SpecNorm == InitNorm /\ [][NextNorm]_vars

(***************************************************************************)
(* SLUPreprocessing.values2category_labels_in_confnet                      *)
(***************************************************************************)
\* the loop over the index: the confusion network and the record after it
RECURSIVE scan_confnet(_, _, _)
scan_confnet(confnet_cp, rec, entries) ==
    IF entries = <<>> THEN [cn |-> confnet_cp, valform |-> rec]
    ELSE LET surface == Head(entries)[1]
             slot_upper == Head(entries)[2][1][1]
             value == Head(entries)[2][1][2][1]
         IN  IF cn_contains(confnet_cp, surface)
             THEN scan_confnet(
                      cn_phrase2category_label(
                          cn_replace(confnet_cp, surface, <<value>>),
                          <<value>>, <<slot_upper>>),
                      (slot_upper :> <<value, surface>>) @@ rec,
                      Tail(entries))
             ELSE scan_confnet(confnet_cp, rec, Tail(entries))

\* confnet_cp = copy.deepcopy(confnet)
confnet_cp_of(confnet) == deepcopy(confnet)

values2category_labels_in_confnet ==
    /\ OneStep("values2category_labels_in_confnet", "confnet")
    /\ \E confnet \in SeqsUpTo(AltSets(HypWords), MaxCnLen) :
       \E idx \in form_upnames_vals :
        LET c == confnet_cp_of(confnet)
            out == scan_confnet(c.value, EmptyMap, idx)
        IN  /\ read_form_upnames_vals(idx)
            /\ arg0' = confnet
            \* the replacements build new objects: the copy is not changed
            /\ arg' = confnet
            /\ cp' = out.cn
            /\ valform_for_cl' = out.valform
            /\ ret' = Ret(out.cn, <<>>, out.valform,
                          c.is_arg /\ out.valform = EmptyMap)

(***************************************************************************)
(* category_labels2values_in_utterance called with any utterance and any   *)
(* record, not only those a forward call returned.                         *)
(***************************************************************************)
\* the entries a record can hold
RecordEntries ==
    ("CITY" :> <<"Prague", <<"Praha">>>>)
    @@ ("STOP" :> <<"Vary", <<"Karlovy", "Vary">>>>)

\* the records a caller can pass: any part of RecordEntries
Records == {[cl \in D |-> RecordEntries[cl]] : D \in SUBSET DOMAIN RecordEntries}

\* the tokens of the utterances passed: the labels and one other word
LabelWords == {"CITY", "STOP", "to"}

category_labels2values_in_utterance_with ==
    /\ OneStep("category_labels2values_in_utterance", "utterance")
    /\ \E utt \in SeqsUpTo(LabelWords, MaxUttLen), category_labels \in Records :
       \E keys \in Perms(DOMAIN category_labels) :
        LET c == deepcopy(utt)
        IN  /\ arg' = utt /\ arg0' = utt
            /\ cp' = c.value
            /\ valform_for_cl' = category_labels
            /\ ret' = Ret(restore_labels(c.value, category_labels, keys),
                          <<>>, EmptyMap, c.is_arg)
    /\ UNCHANGED dbvars

NextBack ==
    \/ category_labels2values_in_utterance_with
    \/ end_turn

SpecBack == InitNorm /\ [][NextBack]_vars

(***************************************************************************)
(* SLUInterface.parse                                                      *)
(* The input is an object of one of the classes of InputClasses, holding   *)
(* a sequence of tokens.                                                   *)
(***************************************************************************)
InputClasses ==
    {"Utterance", "UtteranceHyp", "UtteranceNBList",
     "UtteranceConfusionNetwork", "DialogueAct", "str", "NoneType"}

\* isinstance, the classes of the input being unrelated to each other
isinstance(cls, class) == cls = class

\* a variant of dispatch that takes an n-best list for an utterance
dispatch_nblist_as_1_best(cls) ==
    IF isinstance(cls, "Utterance") \/ isinstance(cls, "UtteranceNBList")
    THEN "parse_1_best"
    ELSE IF isinstance(cls, "UtteranceHyp") THEN "parse_1_best"
    ELSE IF isinstance(cls, "UtteranceConfusionNetwork") THEN "parse_confnet"
    ELSE ""

\* the chain of tests of parse: the method to call, "" for the last else
dispatch(cls) ==
    IF isinstance(cls, "Utterance") THEN "parse_1_best"
    ELSE IF isinstance(cls, "UtteranceHyp") THEN "parse_1_best"
    ELSE IF isinstance(cls, "UtteranceNBList") THEN "parse_nblist"
    ELSE IF isinstance(cls, "UtteranceConfusionNetwork") THEN "parse_confnet"
    ELSE ""

\* parse_1_best, parse_nblist, parse_confnet: those of SLUInterface raise
\* SLUException, those of a parser derived from it return (raises = FALSE)
parse ==
    /\ pc = "idle"
    /\ op' = "parse" /\ kind' = "" /\ pc' = "done"
    /\ orig' = <<>> /\ cp_is_arg' = FALSE
    /\ category_label_counter' = EmptyMap
    /\ tot_len' = 0 /\ substituted_len' = 0
    /\ todo' = <<>> /\ matched' = <<>>
    /\ da' = <<>> /\ da0' = <<>> /\ orig_da' = <<>>
    /\ \E cls \in InputClasses, utterance \in SeqsUpTo(NormWords, MaxHypLen),
          raises \in BOOLEAN :
        LET input == [class |-> cls, value |-> utterance]
        IN  /\ arg' = input /\ arg0' = input
            /\ cp' = <<>>
            /\ IF dispatch(cls) = ""
               THEN /\ called' = <<>>
                    /\ err' = "DAILRException"
                    /\ ret' = NoRet
               ELSE /\ called' = <<[method |-> dispatch(cls),
                                    utterance |-> input]>>
                    /\ err' = IF raises THEN "SLUException" ELSE ""
                    /\ ret' = IF raises THEN NoRet
                              ELSE Ret(input, <<>>, EmptyMap, TRUE)
    /\ valform_for_cl' = EmptyMap
    /\ UNCHANGED <<dbvars, threads>>

NextParse ==
    \/ parse
    \/ end_turn

SpecParse == InitNorm /\ [][NextParse]_vars

(***************************************************************************)
(* values2category_labels_in_uttnblist called from several threads on one  *)
(* engine. A thread reads and writes the attributes of the database one at *)
(* a time (a thread switch can come between any two of them); the rest of  *)
(* the method works on the locals of the call.                             *)
(***************************************************************************)
\* most hypotheses of an n-best list a thread passes
MaxConcHyps == 1

\* the surface forms of the database
Forms == {synonym_value_category[i][1] : i \in DOMAIN synonym_value_category}

\* the n-best lists the threads pass: the hypotheses are surface forms
ConcNBLists == SeqsUpTo(Forms, MaxConcHyps)

\* the whole loop over the index entries on the locals of a call
RECURSIVE run_uttnblist(_, _, _, _, _, _)
run_uttnblist(nblist_cp, rec, counter, sub, tot, entries) ==
    IF entries = <<>>
    THEN [rep |-> nblist_cp, valform |-> rec, err |-> ""]
    ELSE LET surface == Head(entries)[1]
             upnames_vals == Head(entries)[2]
             hyps == hyps_with_surface(nblist_cp, surface)
             sub2 == sub + Len(surface) * Cardinality(hyps)
             slot_upper == upnames_vals[1][1]
             value == upnames_vals[1][2][1]
             category_label ==
                 category_label_uttnblist(slot_upper,
                                          Count(counter, slot_upper))
             new_cp == substitute_in_hyps(nblist_cp, hyps, surface, value,
                                          category_label)
             new_rec == (category_label :> <<value, surface>>) @@ rec
         IN  IF hyps = {}
             THEN run_uttnblist(nblist_cp, rec, counter, sub, tot,
                                Tail(entries))
             ELSE IF sub2 >= tot
             THEN IF sub2 # tot
                  THEN [rep |-> <<>>, valform |-> EmptyMap,
                        err |-> "AssertionError"]
                  ELSE [rep |-> new_cp, valform |-> new_rec, err |-> ""]
             ELSE run_uttnblist(
                      new_cp, new_rec,
                      (slot_upper :> Count(counter, slot_upper) + 1)
                          @@ counter,
                      sub2, tot, Tail(entries))

\* a variant of assigned that has the attribute hold the list before its
\* last element is in it
assigned_unfinished(l) == SubSeq(l, 1, Len(l) - 1)

\* the attribute is assigned the list the comprehension has built
assigned(l) == l

\* the frame of a step of thread t
ThreadStep(t, from, new) ==
    /\ threads[t].pc = from
    /\ threads' = [threads EXCEPT ![t] = new]
    /\ UNCHANGED <<database, synonym_value_category, loads,
                   text_normalization, text_normalization_mapping,
                   callvars, called>>

\* the call begins
t_call(t) ==
    /\ pc = "idle"
    /\ \E nblist \in ConcNBLists :
           ThreadStep(t, "idle",
                      [IdleThread EXCEPT !.pc = "test_form_upnames_vals",
                                         !.input = nblist])
    /\ UNCHANGED <<_form_val_upname, _form_upnames_vals>>

\* form_upnames_vals: if self._form_upnames_vals is None
t_test_form_upnames_vals(t) ==
    /\ ThreadStep(t, "test_form_upnames_vals",
                  [threads[t] EXCEPT !.pc =
                      IF _form_upnames_vals.isNone
                      THEN "test_form_val_upname"
                      ELSE "return_form_upnames_vals"])
    /\ UNCHANGED <<_form_val_upname, _form_upnames_vals>>

\* form_val_upname: if self._form_val_upname is None
t_test_form_val_upname(t) ==
    /\ ThreadStep(t, "test_form_val_upname",
                  [threads[t] EXCEPT !.pc =
                      IF _form_val_upname.isNone
                      THEN "set_form_val_upname"
                      ELSE "return_form_val_upname"])
    /\ UNCHANGED <<_form_val_upname, _form_upnames_vals>>

\* self._form_val_upname = [...]
t_set_form_val_upname(t) ==
    /\ ThreadStep(t, "set_form_val_upname",
                  [threads[t] EXCEPT !.pc = "return_form_val_upname"])
    /\ _form_val_upname' =
           Some(assigned(derive_form_val_upname(synonym_value_category)))
    /\ UNCHANGED _form_upnames_vals

\* return self._form_val_upname, and the grouping of what was returned
t_return_form_val_upname(t) ==
    /\ ThreadStep(t, "return_form_val_upname",
                  [threads[t] EXCEPT !.pc = "set_form_upnames_vals",
                                     !.fvu = _form_val_upname.list])
    /\ UNCHANGED <<_form_val_upname, _form_upnames_vals>>

\* self._form_upnames_vals = [...]
t_set_form_upnames_vals(t) ==
    /\ \E idx \in derive_form_upnames_vals(threads[t].fvu) :
        /\ ThreadStep(t, "set_form_upnames_vals",
                      [threads[t] EXCEPT !.pc = "return_form_upnames_vals",
                                         !.computed = TRUE])
        /\ _form_upnames_vals' = Some(assigned(idx))
    /\ UNCHANGED _form_val_upname

\* return self._form_upnames_vals: the list the loop will go over
t_return_form_upnames_vals(t) ==
    /\ ThreadStep(t, "return_form_upnames_vals",
                  [threads[t] EXCEPT !.pc = "scan",
                                     !.idx = _form_upnames_vals.list])
    /\ UNCHANGED <<_form_val_upname, _form_upnames_vals>>

\* the copy, the loop and the return
t_scan(t) ==
    /\ LET out == run_uttnblist(nblist_cp_of(threads[t].input).value,
                                EmptyMap, EmptyMap, 0,
                                SumLen(threads[t].input), threads[t].idx)
       IN  ThreadStep(t, "scan",
                      [threads[t] EXCEPT !.pc = "done",
                                         !.rep = out.rep,
                                         !.valform = out.valform,
                                         !.err = out.err])
    /\ UNCHANGED <<_form_val_upname, _form_upnames_vals>>

\* the caller drops the results
t_end(t) ==
    /\ ThreadStep(t, "done", IdleThread)
    /\ UNCHANGED <<_form_val_upname, _form_upnames_vals>>

NextConc ==
    \E t \in Threads :
        \/ t_call(t)
        \/ t_test_form_upnames_vals(t)
        \/ t_test_form_val_upname(t)
        \/ t_set_form_val_upname(t)
        \/ t_return_form_val_upname(t)
        \/ t_set_form_upnames_vals(t)
        \/ t_return_form_upnames_vals(t)
        \/ t_scan(t)
        \/ t_end(t)

SpecConc == InitNB /\ [][NextConc]_vars

(***************************************************************************)
(* The engine in use: any call of any method, one call at a time.          *)
(***************************************************************************)
Next ==
    \/ values2category_labels_in_utterance
    \/ values2category_labels_in_uttnblist
    \/ values2category_labels_in_confnet
    \/ values2category_labels_in_da
    \/ scan_utterance
    \/ scan_uttnblist
    \/ align_da
    \/ category_labels2values_in_utterance
    \/ category_labels2values_in_uttnblist
    \/ category_labels2values_in_da
    \/ category_labels2values_in_nblist
    \/ category_labels2values_in_confnet
    \/ end_turn

Spec == InitNB /\ [][Next]_vars

(***************************************************************************)
(* Properties.                                                             *)
(***************************************************************************)
\* the occurrences of surface forms in utt: <<form, start>>
Occurrences(utt) ==
    {fo \in Forms \X (1..Len(utt)) :
        /\ fo[2] + Len(fo[1]) - 1 <= Len(utt)
        /\ SubSeq(utt, fo[2], fo[2] + Len(fo[1]) - 1) = fo[1]}

\* no two occurrences of surface forms in utt share a token
NonOverlapping(utt) ==
    \A a, b \in Occurrences(utt) :
        a # b => \/ a[2] + Len(a[1]) <= b[2]
                 \/ b[2] + Len(b[1]) <= a[2]

\* a is a proper contiguous part of b
IsProperPart(a, b) == Len(a) < Len(b) /\ Contains(b, a)

\* every occurrence of a in utt lies inside an occurrence of b
OnlyInside(utt, a, b) ==
    \A x \in Occurrences(utt) :
        x[1] = a =>
            \E y \in Occurrences(utt) :
                /\ y[1] = b
                /\ y[2] <= x[2]
                /\ x[2] + Len(a) <= y[2] + Len(b)

MatchedSurfaces == {matched[i].surface : i \in DOMAIN matched}

ForwardDone(method) == op = method /\ pc = "done" /\ err = ""

\* the category labels a forward call on an utterance can generate
UpperSlotNames == {Upper(synonym_value_category[i][3]) :
                      i \in DOMAIN synonym_value_category}

\* C1: forward substitution of an utterance whose surface forms do not
\* overlap, then backward substitution with the record returned, gives the
\* original token sequence (stated here for the utterances that hold no
\* token equal to a category label).
C1_RoundTrip ==
    (/\ op = "category_labels2values_in_utterance"
     /\ pc = "done"
     /\ NonOverlapping(orig)
     /\ Range(orig) \cap UpperSlotNames = {})
    => ret.rep = orig

\* the number of times t occurs in the list s
Occ(s, t) == Cardinality({i \in DOMAIN s : s[i] = t})

\* the lists a and b hold the same elements the same number of times
SameRecords(a, b) == \A t \in Range(a) \cup Range(b) : Occ(a, t) = Occ(b, t)

\* C2: after a load the synonym-record list and both derived indices hold
\* exactly the records of the source loaded last, each once per listing.
C2_ReloadReplaces ==
    /\ SameRecords(synonym_value_category, Triples(database))
    /\ ~_form_val_upname.isNone =>
           SameRecords(_form_val_upname.list,
                       derive_form_val_upname(Triples(database)))
    /\ ~_form_upnames_vals.isNone =>
           {e[1] : e \in Range(_form_upnames_vals.list)}
               = {t[1] : t \in Range(Triples(database))}

C6_OneLabelPerValue ==
    ForwardDone("values2category_labels_in_uttnblist") =>
        \A k, l \in DOMAIN matched :
            (/\ matched[k].slot = matched[l].slot
             /\ matched[k].value = matched[l].value
             /\ matched[k].hyps # matched[l].hyps)
            => matched[k].label = matched[l].label

\* C6: in a call on an n-best list a label stands for one matched surface
\* form: two matches are of different surface forms and carry different
\* labels, also when they are of one value of one slot, and the record
\* maps the label of a match to its value and its surface form.
C6_OneLabelPerSurface ==
    (op = "values2category_labels_in_uttnblist" /\ err = "") =>
        /\ \A k, l \in DOMAIN matched :
               k # l => /\ matched[k].surface # matched[l].surface
                        /\ matched[k].label # matched[l].label
        /\ \A k \in DOMAIN matched :
               /\ matched[k].label \in DOMAIN valform_for_cl
               /\ valform_for_cl[matched[k].label]
                      = <<matched[k].value, matched[k].surface>>

\* two surface forms of one value of one slot were matched, in different
\* hypotheses
C6_Witness ==
    /\ ForwardDone("values2category_labels_in_uttnblist")
    /\ \E k, l \in DOMAIN matched :
           /\ k # l
           /\ matched[k].slot = matched[l].slot
           /\ matched[k].value = matched[l].value
           /\ matched[k].hyps # matched[l].hyps

\* the methods that substitute, forward and backward
SubstitutionOps ==
    {"values2category_labels_in_utterance",
     "values2category_labels_in_uttnblist",
     "values2category_labels_in_confnet",
     "values2category_labels_in_da",
     "category_labels2values_in_utterance",
     "category_labels2values_in_uttnblist",
     "category_labels2values_in_da",
     "category_labels2values_in_nblist",
     "category_labels2values_in_confnet"}

C8_NormalisationKeepsInput ==
    (op \in {"text_normalisation", "normalise_confnet"} /\ pc = "done") =>
        /\ arg = arg0
        /\ ret.rep = IF kind = "utterance"
                     THEN normalise_utterance(lower(arg0),
                                              text_normalization_mapping)
                     ELSE normalise_cn(cn_lower(arg0),
                                       text_normalization_mapping)

\* every token of utt that is a label of the record gives way to the surface
\* form recorded for it
RestoreAll(utt, category_labels) ==
    ConcatAll([i \in DOMAIN utt |->
                  IF utt[i] \in DOMAIN category_labels
                  THEN category_labels[utt[i]][2]
                  ELSE <<utt[i]>>])

\* C11: the backward pass on an utterance raises no error and returns the
\* utterance with every occurrence of every label of the record replaced by
\* the surface form recorded for it, the other tokens (labels without an
\* entry among them) as they were.
C11_RestoresEveryOccurrence ==
    (op = "category_labels2values_in_utterance" /\ pc = "done"
     /\ orig = <<>>) =>
        /\ err = ""
        /\ ret.rep = RestoreAll(arg0, valform_for_cl)

\* C12: a load of a source without the `database' object or of another shape
\* than slot -> value -> [phrase, ...] fails with the configuration error
\* and leaves the database, the record list and both caches as they were.
C12_FailedLoadAtomic ==
    [][(op' = "load" /\ loads' # loads
        /\ (~arg'.has_database \/ arg'.shape # "ok"))
       => (/\ err' = "SLUException"
           /\ UNCHANGED <<database, synonym_value_category,
                          _form_val_upname, _form_upnames_vals>>)]_vars

\* C13: parse calls parse_1_best for an Utterance or an UtteranceHyp,
\* parse_nblist for an UtteranceNBList, parse_confnet for an
\* UtteranceConfusionNetwork, that one method only and with the input; for
\* any other input it calls none and raises the "Unsupported input" error.
C13_Dispatch ==
    (op = "parse" /\ pc = "done") =>
        LET expected ==
                CASE arg.class \in {"Utterance", "UtteranceHyp"}
                         -> "parse_1_best"
                  [] arg.class = "UtteranceNBList" -> "parse_nblist"
                  [] arg.class = "UtteranceConfusionNetwork" -> "parse_confnet"
                  [] OTHER -> ""
        IN  IF expected = ""
            THEN called = <<>> /\ err = "DAILRException"
            ELSE /\ called = <<[method |-> expected, utterance |-> arg]>>
                 /\ err # "DAILRException"

\* parse was given what is not a representation, and has raised
C13_Witness ==
    /\ op = "parse" /\ pc = "done"
    /\ arg.class = "DialogueAct" /\ arg.value # <<>>
    /\ called = <<>> /\ err = "DAILRException"

\* C14: a cached index, and so what a read of form_val_upname or of
\* form_upnames_vals returns, is an index that a derivation from the record
\* list as it is now gives: never one computed before the last load.
C14_NoStaleCache ==
    LET fresh == derive_form_val_upname(synonym_value_category)
    IN  /\ ~_form_val_upname.isNone => _form_val_upname.list = fresh
        /\ ~_form_upnames_vals.isNone =>
               _form_upnames_vals.list \in derive_form_upnames_vals(fresh)
        /\ op = "form_val_upname" => ret.rep = fresh
        /\ op = "form_upnames_vals" =>
               ret.rep \in derive_form_upnames_vals(fresh)

\* a read after the second load has returned the records of two loads
C14_Witness ==
    /\ op = "form_upnames_vals" /\ loads = 2
    /\ Len(synonym_value_category) >= 2
    /\ Len(ret.rep) >= 2
    /\ ~_form_val_upname.isNone /\ ~_form_upnames_vals.isNone

\* the records of the list with the form f and a slot name that is up in
\* upper case, and among them those with the value v
RecordsOf(f, up) ==
    {i \in DOMAIN synonym_value_category :
        /\ synonym_value_category[i][1] = f
        /\ Upper(synonym_value_category[i][3]) = up}
RecordsOfValue(f, up, v) ==
    {i \in RecordsOf(f, up) : synonym_value_category[i][2] = v}

\* C15: the grouped index has one entry per surface form of the record
\* list, longest forms first, and the entry of a form maps every upper-cased
\* slot name of its records, and no other, to the list of the values the
\* records bind to the form and the slot, one per record.
C15_GroupedIndexShape ==
    ~_form_upnames_vals.isNone =>
        LET idx == _form_upnames_vals.list
        IN  /\ \A i, j \in DOMAIN idx : i # j => idx[i][1] # idx[j][1]
            /\ {idx[i][1] : i \in DOMAIN idx} = Forms
            /\ \A i, j \in DOMAIN idx :
                   i < j => Len(idx[i][1]) >= Len(idx[j][1])
            /\ \A i \in DOMAIN idx :
                   LET f == idx[i][1]
                       upnames_vals == idx[i][2]
                   IN  /\ \A k, l \in DOMAIN upnames_vals :
                              k # l => upnames_vals[k][1] # upnames_vals[l][1]
                       /\ {upnames_vals[k][1] : k \in DOMAIN upnames_vals}
                              = {up \in UpperSlotNames : RecordsOf(f, up) # {}}
                       /\ \A k \in DOMAIN upnames_vals :
                              LET up == upnames_vals[k][1]
                                  vals == upnames_vals[k][2]
                              IN  /\ Len(vals) = Cardinality(RecordsOf(f, up))
                                  /\ \A v \in Range(vals) :
                                         Occ(vals, v) = Cardinality(
                                             RecordsOfValue(f, up, v))

\* the index of a database with forms of two lengths, after a second load
C15_Witness ==
    /\ ~_form_upnames_vals.isNone /\ loads = 2
    /\ Len(_form_upnames_vals.list) >= 2
    /\ Len(_form_upnames_vals.list[1][1])
           > Len(_form_upnames_vals.list[Len(_form_upnames_vals.list)][1])

\* C16: in the dialogue act values2category_labels_in_da returns, an item
\* whose value is a value of the record has a label recorded for that value
\* as its value; any other item whose value and slot name are those of a
\* record of the database has the upper-cased slot name as its value; any
\* other item is as it was.
C16_Alignment ==
    ForwardDone("values2category_labels_in_da") =>
        /\ Len(ret.da) = Len(orig_da)
        /\ \A i \in DOMAIN orig_da :
               LET dai == orig_da[i]
                   labels == {cl \in DOMAIN ret.valform :
                                 ret.valform[cl][1] = dai.value[1]}
                   in_db == \E k \in DOMAIN synonym_value_category :
                               /\ synonym_value_category[k][2] = dai.value[1]
                               /\ Upper(synonym_value_category[k][3])
                                      = Upper(dai.name)
               IN  /\ ret.da[i].name = dai.name
                   /\ IF labels # {}
                      THEN Len(ret.da[i].value) = 1
                           /\ ret.da[i].value[1] \in labels
                      ELSE IF in_db
                      THEN ret.da[i].value = <<Upper(dai.name)>>
                      ELSE ret.da[i].value = dai.value

\* a dialogue act of two items has come back with one item labelled from
\* the record and the other from the database
C16_Witness ==
    /\ ForwardDone("values2category_labels_in_da")
    /\ Len(orig_da) = 2
    /\ \E i, j \in DOMAIN orig_da :
           /\ \E cl \in DOMAIN ret.valform :
                  /\ ret.valform[cl][1] = orig_da[i].value[1]
                  /\ ret.da[i].value = <<cl>>
           /\ \A cl \in DOMAIN ret.valform :
                  ret.valform[cl][1] # orig_da[j].value[1]
           /\ ret.da[j].value = <<Upper(orig_da[j].name)>>
           /\ ret.da[j].value # orig_da[j].value

\* C17: text_normalisation of an utterance in lower case returns it with
\* the rules applied in order: those the engine was built with when it was
\* given a list, the empty list too, and the default rules when it was
\* given none.
C17_SuppliedRules ==
    (op = "text_normalisation" /\ pc = "done" /\ lower(arg0) = arg0) =>
        ret.rep = normalise_utterance(
                      arg0,
                      IF text_normalization.isNone THEN DefaultMapping
                      ELSE text_normalization.list)

\* what a call on nblist can return when it runs alone
Alone(nblist) ==
    {run_uttnblist(nblist, EmptyMap, EmptyMap, 0, SumLen(nblist), idx) :
        idx \in derive_form_upnames_vals(
                    derive_form_val_upname(synonym_value_category))}

\* C18: with no load in progress, a forward call run in a thread beside
\* another returns what the call can return when run alone, and the record
\* list and the cached indices are those a read by one thread leaves.
C18_ThreadsIndependent ==
    /\ \A t \in Threads :
           threads[t].pc = "done" =>
               [rep |-> threads[t].rep, valform |-> threads[t].valform,
                err |-> threads[t].err] \in Alone(threads[t].input)
    /\ synonym_value_category = SortByLenDesc(Triples(database))
    /\ ~_form_val_upname.isNone =>
           _form_val_upname.list
               = derive_form_val_upname(synonym_value_category)
    /\ ~_form_upnames_vals.isNone =>
           _form_upnames_vals.list \in
               derive_form_upnames_vals(
                   derive_form_val_upname(synonym_value_category))

\* two threads have returned from calls on different inputs, both having
\* computed the index
C18_Witness ==
    /\ \A t \in Threads :
           /\ threads[t].pc = "done" /\ threads[t].computed
           /\ threads[t].valform # EmptyMap
    /\ threads[1].input # threads[2].input

\* C19: in a forward call the label of a match is the upper-cased slot name
\* alone when no earlier match of the call was of that slot; otherwise it is
\* the slot name with an index, different from the labels of the earlier
\* matches.
C19_LabelSynthesis ==
    \A k \in DOMAIN matched :
        IF \E l \in 1..(k - 1) : matched[l].slot = matched[k].slot
        THEN /\ matched[k].label # matched[k].slot
             /\ \A l \in 1..(k - 1) : matched[l].label # matched[k].label
        ELSE matched[k].label = matched[k].slot

\* C20: when a forward call on an utterance returns, the record holds for
\* every surface form matched an entry under the label that took its place,
\* with the value and that surface form, a binding of the database.
C20_RecordComplete ==
    ForwardDone("values2category_labels_in_utterance") =>
        \A k \in DOMAIN matched :
            /\ matched[k].label \in DOMAIN ret.valform
            /\ ret.valform[matched[k].label]
                   = <<matched[k].value, matched[k].surface>>
            /\ \E i \in DOMAIN synonym_value_category :
                   /\ synonym_value_category[i][1] = matched[k].surface
                   /\ synonym_value_category[i][2] = matched[k].value
                   /\ Upper(synonym_value_category[i][3]) = matched[k].slot

\* C21: when a forward call on an utterance returns without having stopped
\* on full coverage, the utterance returned holds no occurrence of any
\* surface form the call matched.
C21_EveryOccurrenceRewritten ==
    (/\ ForwardDone("values2category_labels_in_utterance")
     /\ substituted_len < tot_len) =>
        \A k \in DOMAIN matched : ~Contains(ret.rep, matched[k].surface)

\* C22: a pass of the forward loop that matches a surface form in an
\* utterance puts the label where the matched occurrence was and leaves
\* every other token as it was, in the same order.
C22_RelabelledInPlace ==
    [][(/\ pc = "scan" /\ kind = "utterance"
        /\ Len(matched') = Len(matched) + 1) =>
           LET m == matched'[Len(matched')]
               pos == find(cp, m.surface)
           IN  cp' = SubSeq(cp, 1, pos - 1) \o <<m.label>>
                     \o SubSeq(cp, pos + Len(m.surface), Len(cp))]_vars

\* C23: when the forward call on a dialogue act returns, every item whose
\* value was replaced holds a label of its own slot: the upper-cased name of
\* the item, or a label the scan generated for a match of that slot.
C23_SlotAgreement ==
    ForwardDone("values2category_labels_in_da") =>
        \A i \in DOMAIN orig_da :
            ret.da[i].value # orig_da[i].value =>
                \/ ret.da[i].value = <<Upper(orig_da[i].name)>>
                \/ \E k \in DOMAIN matched :
                       /\ <<matched[k].label>> = ret.da[i].value
                       /\ matched[k].slot = Upper(orig_da[i].name)

\* C9: the backward pass on the n-best list a forward call returned, with
\* the record it returned, gives the original n-best list.
C9_NBListRoundTrip ==
    (op = "category_labels2values_in_uttnblist" /\ pc = "done")
    => (err = "" /\ ret.rep = orig)

\* C10: the backward pass on the dialogue act a forward call returned, with
\* the record it returned, gives a dialogue act equal to the original one.
C10_DaRoundTrip ==
    (op = "category_labels2values_in_da" /\ pc = "done")
    => ret.da = orig_da

\* C3: when surface form A is a proper part of surface form B and the
\* utterance contains B, B is matched, and A is not matched on the tokens of
\* an occurrence of B (so not at all when A occurs only inside B).
C3_LongestMatch ==
    ForwardDone("values2category_labels_in_utterance") =>
        \A a, b \in Forms :
            (IsProperPart(a, b) /\ Contains(orig, b)) =>
                /\ b \in MatchedSurfaces
                /\ OnlyInside(orig, a, b) => a \notin MatchedSurfaces

\* C4: the substituted-token count never exceeds the token count of the
\* input, the assertion never fails, and the scan of a non-empty input does
\* not go on once the two are equal.
C4_Coverage ==
    /\ substituted_len <= tot_len
    /\ err # "AssertionError"
    /\ (pc = "scan" /\ tot_len > 0) => substituted_len # tot_len

====
